---- MODULE Spec2Model ----
(***************************************************************************)
(* Smart Attendance System: the session (ticket) store, the attendance    *)
(* store and the request handlers that read and write them.                *)
(*                                                                         *)
(* Time is counted in minutes.  A session's `date` is the minute at which  *)
(* its calendar day starts (the request gives it as YYYY-MM-DD and the     *)
(* server's time zone is taken to be UTC).  `startTime` and `endTime` are  *)
(* the strings the route's pattern /^([0-1]?[0-9]|2[0-3]):[0-5][0-9]$/     *)
(* admits: the minute of the day they denote and whether the hour is       *)
(* written with two digits ("09:00") or with one ("9:00").  Face           *)
(* confidences are in hundredths (0.6 is 60).                              *)
(*                                                                         *)
(* Every `await` of a handler is a point where other requests, the clock   *)
(* and the store's TTL monitor may run: a handler is one action per        *)
(* awaited store operation, each made of the store operation and of the    *)
(* synchronous code that follows it.  Request bodies are those that pass   *)
(* the express-validator chains of the routes.                             *)
(***************************************************************************)
EXTENDS Integers, FiniteSets, Sequences, TLC

VARIABLES
    clock,        \* Date.now(), in minutes
    sessions,     \* the Session collection: id -> document, or NoSession
    allocated,    \* session ids already given out (ObjectIds are never reused)
    attendances,  \* the Attendance collection: a set of documents
    users,        \* the User collection, the part read here: student -> has a faceEmbedding
    req           \* the requests in flight: slot -> handler position and locals

vars == <<clock, sessions, allocated, attendances, users, req>>

-----------------------------------------------------------------------------
(* Bounds of the model *)

NumStudents == 2
NumSessions == 2
NumAttendanceIds == 4
\* the length of a face embedding (128 in the routes)
EmbeddingLength == 2

Students == 1 .. NumStudents
SessionIds == 1 .. NumSessions
AttendanceIds == 1 .. NumAttendanceIds
Tokens == {"k1", "k2"}
Reqs == {"r1", "r2"}

Day == 24 * 60
Today == Day
T0900 == 9 * 60
T1000 == 10 * 60

\* "HH:MM" and "H:MM"
TwoDigits(minute) == [min |-> minute, pad |-> TRUE]
OneDigit(minute) == [min |-> minute, pad |-> FALSE]

-----------------------------------------------------------------------------
(* Program constants *)

LateMinutes == 15
ExpiryBufferMinutes == 30
FaceThreshold == 60
VerifiedThreshold == 80
DefaultMaxStudents == 100

\* the instants the clock is observed at: around the start, the late
\* threshold and the expiry of a 09:00-10:00 session of today
Instants ==
    { Today, Today + T0900 - 1, Today + T0900,
      Today + T0900 + LateMinutes, Today + T0900 + LateMinutes + 1,
      Today + T1000 + ExpiryBufferMinutes, Today + T1000 + ExpiryBufferMinutes + 1 }

Methods == {"qr_code", "face_recognition"}
NoConfidence == -1
\* a path the document does not carry (undefined)
NoStatus == "none"
NoRemarks == "none"
Confidences == {NoConfidence, 0, 59, 60, 80}

-----------------------------------------------------------------------------
(* Documents *)

NoSession == [id |-> 0]
NoAttendance == [id |-> 0]

IsSession(s) == s.id # 0
IsAttendance(a) == a.id # 0

\* the time value of an Invalid Date (NaN): every comparison with it is false
InvalidDate == 0 - 1

DateLT(a, b) == a # InvalidDate /\ b # InvalidDate /\ a < b
DateGT(a, b) == a # InvalidDate /\ b # InvalidDate /\ a > b
DateGE(a, b) == a # InvalidDate /\ b # InvalidDate /\ a >= b

\* new Date(`${date}T${time}:00`): a date-time string, which the engine (V8)
\* parses as ISO 8601; with a one-digit hour the string is not of that
\* format and the result is an Invalid Date
ParseDateTime(date, time) ==
    IF time.pad THEN date + time.min ELSE InvalidDate

\* new Date(`${session.date.toISOString().split('T')[0]}T${session.startTime}:00`)
SessionStart(s) == ParseDateTime(s.date, s.startTime)

\* the expiry check with the instant expiresAt itself rejected
QrExpiredAtExpiry(session, now) == DateGE(now, session.expiresAt)

\* if (new Date() > session.expiresAt): 'QR code has expired'
QrExpired(session, now) == DateGT(now, session.expiresAt)

\* if (now < sessionStart): 'Session has not started yet'
NotStartedYet(session, now) == DateLT(now, SessionStart(session))

\* sessionSchema.virtual('isExpired'), evaluated at time `now`
isExpired(s, now) == DateGT(now, s.expiresAt)

\* sessionSchema.methods.isValid
isValid(s, now) == s.isActive /\ ~isExpired(s, now)

\* the compound index without its unique option
NoUniqueIndex(docs) == TRUE

\* attendanceSchema.index({ student: 1, session: 1 }, { unique: true }):
\* the store refuses a collection with two documents of one (student, session)
UniqueStudentSession(docs) ==
    \A a, b \in docs :
        (a.student = b.student /\ a.session = b.session) => a.id = b.id

\* the qrToken path without its unique option
NoUniqueQrToken(ss) == TRUE

\* sessionSchema qrToken { unique: true }
UniqueQrToken(ss) ==
    \A x, y \in SessionIds :
        (IsSession(ss[x]) /\ IsSession(ss[y]) /\ ss[x].qrToken = ss[y].qrToken) => x = y

\* attendanceSchema.virtual('isLate').  `a.session` is the path's value: the
\* referenced id, and `a.sessionDoc` the populated document when the path has
\* been populated (NoSession otherwise).  On an unpopulated path
\* this.session.startTime is undefined and .split throws a TypeError.  On a
\* populated one the start is set with setHours(parseInt(hours), parseInt(minutes)).
isLate(a) ==
    IF a.session = 0
    THEN [threw |-> FALSE, value |-> FALSE]
    ELSE IF ~IsSession(a.sessionDoc)
    THEN [threw |-> TRUE, value |-> FALSE]
    ELSE [threw |-> FALSE,
          value |-> a.markedAt > a.sessionDoc.date + a.sessionDoc.startTime.min
                                   + LateMinutes]

\* a save whose hook does not evaluate isLate
PreSaveWithoutHook(a) == [threw |-> FALSE, doc |-> a]

\* attendanceSchema.pre('save'): an exception of the hook rejects the save
PreSave(a) ==
    LET late == isLate(a) IN
    IF late.threw
    THEN [threw |-> TRUE, doc |-> a]
    ELSE [threw |-> FALSE,
          doc |-> IF late.value /\ a.status = "present"
                  THEN [a EXCEPT !.status = "late"]
                  ELSE a]

\* what the collection stores of an in-memory document (location, deviceInfo
\* and the createdAt/updatedAt timestamps are left out: no handler reads them)
Stored(a) ==
    [id |-> a.id, student |-> a.student, session |-> a.session,
     status |-> a.status, markedAt |-> a.markedAt, method |-> a.method,
     faceConfidence |-> a.faceConfidence, isVerified |-> a.isVerified,
     remarks |-> a.remarks]

-----------------------------------------------------------------------------
(* Store queries *)

\* the lookup by _id alone
FindSessionById(sid, tok) == sessions[sid]

\* Session.findOne({ _id: sessionId, qrToken: token, isActive: true })
FindSession(sid, tok) ==
    IF IsSession(sessions[sid]) /\ sessions[sid].qrToken = tok /\ sessions[sid].isActive
    THEN sessions[sid]
    ELSE NoSession

\* the handler without its duplicate check
FindNoAttendance(st, sid) == NoAttendance

\* Attendance.findOne({ student: req.user._id, session: sessionId })
FindAttendance(st, sid) ==
    IF \E a \in attendances : a.student = st /\ a.session = sid
    THEN CHOOSE a \in attendances : a.student = st /\ a.session = sid
    ELSE NoAttendance

\* the ObjectId given to a new Attendance document: one no document holds
FreshAttendanceId ==
    CHOOSE i \in AttendanceIds :
        /\ \A a \in attendances : a.id # i
        /\ \A r \in Reqs : req[r].op = "scan" => req[r].doc.id # i

\* the handler without its check of the stored embedding
EmbeddingNeverMissing(hasFace) == FALSE

\* !req.user.faceEmbedding || req.user.faceEmbedding.length === 0
NoFaceEmbedding(hasFace) == ~hasFace

\* !faceConfidence || faceConfidence < (process.env.FACE_RECOGNITION_THRESHOLD || 0.6)
LowFaceConfidence(fc) ==
    fc = NoConfidence \/ fc = 0 \/ fc < FaceThreshold

\* new Attendance({ student, session, method, faceConfidence, isVerified }):
\* status and markedAt take the schema defaults ('present', Date.now)
NewAttendance(i, st, sid, m, fc, now) ==
    [id |-> i, student |-> st, session |-> sid, sessionDoc |-> NoSession,
     status |-> "present", markedAt |-> now, method |-> m,
     faceConfidence |-> fc,
     isVerified |-> IF m = "face_recognition" THEN fc >= VerifiedThreshold ELSE TRUE,
     remarks |-> NoRemarks]

\* the outcome kind of a response of POST /api/attendance/scan-qr
Outcome(res) ==
    CASE res = "InvalidQR" -> "InvalidTicket"
      [] res = "Expired" -> "InvalidTicket"
      [] res = "NotStarted" -> "NotStarted"
      [] res = "AlreadyMarked" -> "DuplicateAdmission"
      [] res = "FaceNotRegistered" -> "BiometricNotRegistered"
      [] res = "LowConfidence" -> "LowConfidence"
      [] res = "Marked" -> "Accepted"
      [] OTHER -> "ServerError"

-----------------------------------------------------------------------------
(* Requests *)

Idle == [op |-> "none", pc |-> "idle"]

\* POST /api/attendance/scan-qr, up to the issue of Attendance.findOne
ScanFindSession(r, st, sid, tok, m, fc) ==
    /\ req[r].pc = "idle"
    /\ LET session == FindSession(sid, tok)
           now == clock
           q == [op |-> "scan", student |-> st, session |-> sid, token |-> tok,
                 method |-> m, faceConfidence |-> fc, hasFace |-> users[st],
                 now |-> now, attendance |-> NoAttendance, doc |-> NoAttendance,
                 pc |-> "done", res |-> "none"]
       IN req' = [req EXCEPT ![r] =
            IF ~IsSession(session) THEN [q EXCEPT !.res = "InvalidQR"]
            ELSE IF QrExpired(session, now) THEN [q EXCEPT !.res = "Expired"]
            ELSE IF NotStartedYet(session, now) THEN [q EXCEPT !.res = "NotStarted"]
            ELSE [q EXCEPT !.pc = "findExisting"]]
    /\ UNCHANGED <<clock, sessions, allocated, attendances, users>>

\* ... from the result of Attendance.findOne to the call of attendance.save()
ScanFindExisting(r) ==
    /\ req[r].pc = "findExisting"
    /\ LET q == req[r]
           existingAttendance == FindAttendance(q.student, q.session)
       IN req' = [req EXCEPT ![r] =
            IF IsAttendance(existingAttendance)
            THEN [q EXCEPT !.pc = "done", !.res = "AlreadyMarked",
                           !.attendance = existingAttendance]
            ELSE IF q.method = "face_recognition" /\ NoFaceEmbedding(q.hasFace)
            THEN [q EXCEPT !.pc = "done", !.res = "FaceNotRegistered"]
            ELSE IF q.method = "face_recognition" /\ LowFaceConfidence(q.faceConfidence)
            THEN [q EXCEPT !.pc = "done", !.res = "LowConfidence"]
            ELSE [q EXCEPT !.pc = "save",
                           !.doc = NewAttendance(FreshAttendanceId, q.student, q.session,
                                                 q.method, q.faceConfidence, clock)]]
    /\ UNCHANGED <<clock, sessions, allocated, attendances, users>>

\* a save that leaves its document in the collection when it is rejected
ScanSaveKeeping(r) ==
    /\ req[r].pc = "save"
    /\ LET q == req[r]
           hook == PreSave(q.doc)
           saved == attendances \cup {Stored(hook.doc)}
       IN IF hook.threw \/ ~UniqueStudentSession(saved)
          THEN /\ req' = [req EXCEPT ![r] = [q EXCEPT !.pc = "done", !.res = "ServerError"]]
               /\ attendances' = saved
          ELSE /\ req' = [req EXCEPT ![r] = [q EXCEPT !.pc = "inc", !.doc = hook.doc]]
               /\ attendances' = saved
    /\ UNCHANGED <<clock, sessions, allocated, users>>

\* await attendance.save(): the pre('save') hook, then the insert under the
\* unique index; a rejected save lands in the handler's catch (500).  The
\* document was built with session: sessionId, so its session path is not
\* populated when the hook reads this.isLate.
ScanSave(r) ==
    /\ req[r].pc = "save"
    /\ LET q == req[r]
           hook == PreSave(q.doc)
           saved == attendances \cup {Stored(hook.doc)}
       IN IF hook.threw \/ ~UniqueStudentSession(saved)
          THEN /\ req' = [req EXCEPT ![r] = [q EXCEPT !.pc = "done", !.res = "ServerError"]]
               /\ UNCHANGED attendances
          ELSE /\ req' = [req EXCEPT ![r] = [q EXCEPT !.pc = "inc", !.doc = hook.doc]]
               /\ attendances' = saved
    /\ UNCHANGED <<clock, sessions, allocated, users>>

\* await Session.findByIdAndUpdate(sessionId, { $inc: { attendanceCount: 1 } }).
\* ScanInc and ScanRespond are the rest of the handler after a save that
\* succeeded; PreSave rejects every save of ScanSave, so that no request is
\* ever at "inc" and the next-state relations below leave the two out.
ScanInc(r) ==
    /\ req[r].pc = "inc"
    /\ LET sid == req[r].session IN
       sessions' = IF IsSession(sessions[sid])
                   THEN [sessions EXCEPT ![sid].attendanceCount = @ + 1]
                   ELSE sessions
    /\ req' = [req EXCEPT ![r].pc = "populate"]
    /\ UNCHANGED <<clock, allocated, attendances, users>>

\* await attendance.populate('session', ...) and the 201 response; reading
\* attendance.session.subject of a session that is gone throws (500)
ScanRespond(r) ==
    /\ req[r].pc = "populate"
    /\ req' = [req EXCEPT ![r] =
         [@ EXCEPT !.pc = "done",
                   !.res = IF IsSession(sessions[req[r].session])
                           THEN "Marked" ELSE "ServerError"]]
    /\ UNCHANGED <<clock, sessions, allocated, attendances, users>>

\* the response has been sent
Finish(r) ==
    /\ req[r].pc = "done"
    /\ req' = [req EXCEPT ![r] = Idle]
    /\ UNCHANGED <<clock, sessions, allocated, attendances, users>>

-----------------------------------------------------------------------------
(* Attendance records *)

\* Attendance.findById(req.params.id)
FindAttendanceById(id) ==
    IF \E a \in attendances : a.id = id
    THEN CHOOSE a \in attendances : a.id = id
    ELSE NoAttendance

\* DELETE /api/attendance/:id, up to the call of Attendance.findByIdAndDelete:
\* Attendance.findById(...).populate('session', 'teacher') and the check of
\* attendance.session.teacher, which throws when the session is gone and
\* populate has left null (500)
RemoveFind(r, id) ==
    /\ req[r].pc = "idle"
    /\ LET attendance == FindAttendanceById(id)
           q == [op |-> "remove", attendance |-> id, session |-> 0,
                 pc |-> "done", res |-> "none"]
       IN req' = [req EXCEPT ![r] =
            IF ~IsAttendance(attendance) THEN [q EXCEPT !.res = "NotFound"]
            ELSE IF ~IsSession(sessions[attendance.session])
            THEN [q EXCEPT !.res = "ServerError"]
            ELSE [q EXCEPT !.pc = "deleteAttendance", !.session = attendance.session]]
    /\ UNCHANGED <<clock, sessions, allocated, attendances, users>>

\* await Attendance.findByIdAndDelete(req.params.id): its result is not read
RemoveDelete(r) ==
    /\ req[r].pc = "deleteAttendance"
    /\ attendances' = {a \in attendances : a.id # req[r].attendance}
    /\ req' = [req EXCEPT ![r].pc = "dec"]
    /\ UNCHANGED <<clock, sessions, allocated, users>>

\* await Session.findByIdAndUpdate(attendance.session._id,
\* { $inc: { attendanceCount: -1 } }) and the response
RemoveDec(r) ==
    /\ req[r].pc = "dec"
    /\ LET sid == req[r].session IN
       sessions' = IF IsSession(sessions[sid])
                   THEN [sessions EXCEPT ![sid].attendanceCount = @ - 1]
                   ELSE sessions
    /\ req' = [req EXCEPT ![r] = [@ EXCEPT !.pc = "done", !.res = "AttendanceDeleted"]]
    /\ UNCHANGED <<clock, allocated, attendances, users>>

\* the bodies of PUT /api/attendance/:id that pass its validators
Statuses == {NoStatus, "present", "absent", "late"}
Remarks == {NoRemarks, "excused"}

\* PUT /api/attendance/:id, up to the call of Attendance.findByIdAndUpdate
ReviseFind(r, id, status, remarks) ==
    /\ req[r].pc = "idle"
    /\ LET attendance == FindAttendanceById(id)
           q == [op |-> "revise", attendance |-> id, status |-> status,
                 remarks |-> remarks, pc |-> "done", res |-> "none"]
       IN req' = [req EXCEPT ![r] =
            IF ~IsAttendance(attendance) THEN [q EXCEPT !.res = "NotFound"]
            ELSE IF ~IsSession(sessions[attendance.session])
            THEN [q EXCEPT !.res = "ServerError"]
            ELSE [q EXCEPT !.pc = "revise"]]
    /\ UNCHANGED <<clock, sessions, allocated, attendances, users>>

\* an update that also takes the record's verification back
UpdateDataUnverified(a, status, remarks) ==
    [a EXCEPT !.status = IF status # NoStatus THEN status ELSE @,
              !.remarks = IF remarks # NoRemarks THEN remarks ELSE @,
              !.isVerified = FALSE]

\* if (status) updateData.status = status;
\* if (remarks !== undefined) updateData.remarks = remarks
UpdateData(a, status, remarks) ==
    [a EXCEPT !.status = IF status # NoStatus THEN status ELSE @,
              !.remarks = IF remarks # NoRemarks THEN remarks ELSE @]

\* await Attendance.findByIdAndUpdate(req.params.id, updateData, ...) and the
\* response: without a document of that id the result is null and the answer
\* is the same
ReviseWrite(r) ==
    /\ req[r].pc = "revise"
    /\ LET q == req[r] IN
       attendances' = {IF a.id = q.attendance
                       THEN UpdateData(a, q.status, q.remarks) ELSE a : a \in attendances}
    /\ req' = [req EXCEPT ![r] = [@ EXCEPT !.pc = "done", !.res = "AttendanceUpdated"]]
    /\ UNCHANGED <<clock, sessions, allocated, users>>

-----------------------------------------------------------------------------
(* Face embeddings *)

\* POST /api/face-recognition/register: User.findByIdAndUpdate(req.user._id,
\* { faceEmbedding }) with an embedding of 128 numbers
RegisterFace(st) ==
    /\ users' = [users EXCEPT ![st] = TRUE]
    /\ UNCHANGED <<clock, sessions, allocated, attendances, req>>

\* DELETE /api/face-recognition/remove: User.findByIdAndUpdate(req.user._id,
\* { faceEmbedding: [] })
RemoveFace(st) ==
    /\ users' = [users EXCEPT ![st] = FALSE]
    /\ UNCHANGED <<clock, sessions, allocated, attendances, req>>

\* Numbers are fixed-point values in hundredths: Unit is 1.0
Unit == 100
Number(v) == [kind |-> "number", value |-> v]
NotANumber == [kind |-> "NaN", value |-> 0]
Infinity == [kind |-> "Infinity", value |-> 0]

\* the components and the arrays of the request bodies: arrays of
\* EmbeddingLength numbers beside longer ones
Components == {0 - 1, 0, 2}
Embeddings ==
    UNION { [1 .. n -> Components] : n \in {EmbeddingLength, EmbeddingLength + 1} }

\* the sum the loop of calculateCosineSimilarity accumulates from index i on
RECURSIVE SumOfProducts(_, _, _)
SumOfProducts(embedding1, embedding2, i) ==
    IF i > Len(embedding1)
    THEN 0
    ELSE embedding1[i] * embedding2[i] + SumOfProducts(embedding1, embedding2, i + 1)

\* Math.sqrt of a sum of squares, in hundredths
Sqrt(x) ==
    CHOOSE k \in 0 .. Unit * (x + 1) :
        k * k <= x * Unit * Unit /\ (k + 1) * (k + 1) > x * Unit * Unit

\* x / y of a number x and the product y of two norms, in hundredths: a
\* division by zero gives NaN or an infinity and does not throw
Divide(x, y) ==
    IF y = 0
    THEN IF x = 0 THEN NotANumber ELSE Infinity
    ELSE IF x >= 0
    THEN Number((x * Unit * Unit * Unit) \div y)
    ELSE Number(0 - (((0 - x) * Unit * Unit * Unit) \div y))

\* the function without its guard
ZeroNormIgnored(norm1, norm2) == FALSE

\* norm1 === 0 || norm2 === 0
ZeroNorm(norm1, norm2) == norm1 = 0 \/ norm2 = 0

\* a similarity that is normalised by the first embedding alone
SimilarityOverFirstNorm(embedding1, embedding2) ==
    IF Len(embedding1) # Len(embedding2)
    THEN [threw |-> TRUE, value |-> Number(0)]
    ELSE LET dotProduct == SumOfProducts(embedding1, embedding2, 1)
             norm1 == Sqrt(SumOfProducts(embedding1, embedding1, 1))
             norm2 == Sqrt(SumOfProducts(embedding2, embedding2, 1))
         IN [threw |-> FALSE,
             value |-> IF ZeroNorm(norm1, norm2)
                       THEN Number(0)
                       ELSE Divide(dotProduct, norm1 * norm1)]

\* function calculateCosineSimilarity(embedding1, embedding2)
calculateCosineSimilarity(embedding1, embedding2) ==
    IF Len(embedding1) # Len(embedding2)
    THEN [threw |-> TRUE, value |-> Number(0)]
    ELSE LET dotProduct == SumOfProducts(embedding1, embedding2, 1)
             norm1 == Sqrt(SumOfProducts(embedding1, embedding1, 1))
             norm2 == Sqrt(SumOfProducts(embedding2, embedding2, 1))
         IN [threw |-> FALSE,
             value |-> IF ZeroNorm(norm1, norm2)
                       THEN Number(0)
                       ELSE Divide(dotProduct, norm1 * norm2)]

\* POST /api/face-recognition/compare: the check of the two lengths, the
\* similarity and the response; an exception is answered 500
Compare(r) ==
    /\ req[r].op = "compare"
    /\ req[r].pc = "received"
    /\ LET q == req[r]
           similarity == calculateCosineSimilarity(q.embedding1, q.embedding2)
       IN req' = [req EXCEPT ![r] =
            IF Len(q.embedding1) # EmbeddingLength \/ Len(q.embedding2) # EmbeddingLength
            THEN [q EXCEPT !.pc = "done", !.res = "BadDimension"]
            ELSE IF similarity.threw
            THEN [q EXCEPT !.pc = "done", !.res = "ServerError"]
            ELSE [q EXCEPT !.pc = "done", !.res = "Compared",
                           !.similarity = similarity.value]]
    /\ UNCHANGED <<clock, sessions, allocated, attendances, users>>

-----------------------------------------------------------------------------
(* Sessions *)

\* today.setHours(0, 0, 0, 0)
Midnight(now) == (now \div Day) * Day

Dates == {Today - Day, Today}
Times == {TwoDigits(T0900), OneDigit(T0900), TwoDigits(T1000)}
Capacities == {DefaultMaxStudents}

\* the expiry set at the end of the session itself
ExpiryAtEnd(end) == end

\* new Date(end.getTime() + 30 * 60000)
ExpiryTime(end) ==
    IF end = InvalidDate THEN InvalidDate ELSE end + ExpiryBufferMinutes

\* POST /api/sessions.  session.save() validates the document (expiresAt is
\* a required Date: an Invalid Date is refused) and inserts it under the
\* unique index of qrToken; a rejected save is answered 500.
CreateSession(r, date, startTime, endTime, qrToken, maxStudents) ==
    /\ req[r].pc = "idle"
    /\ allocated # SessionIds
    /\ LET start == ParseDateTime(date, startTime)
           end == ParseDateTime(date, endTime)
           expiryTime == ExpiryTime(end)
           sid == CHOOSE i \in SessionIds : i \notin allocated
           session == [id |-> sid, date |-> date, startTime |-> startTime,
                       endTime |-> endTime, qrToken |-> qrToken, isActive |-> TRUE,
                       expiresAt |-> expiryTime,
                       maxStudents |-> maxStudents, attendanceCount |-> 0]
           saved == [sessions EXCEPT ![sid] = session]
           res == IF DateGE(start, end) THEN "EndNotAfterStart"
                  ELSE IF date < Midnight(clock) THEN "PastDate"
                  ELSE IF expiryTime = InvalidDate THEN "ServerError"
                  ELSE IF ~UniqueQrToken(saved) THEN "ServerError"
                  ELSE "SessionCreated"
       IN /\ req' = [req EXCEPT ![r] = [op |-> "create", pc |-> "done", res |-> res,
                                        session |-> sid]]
          /\ sessions' = IF res = "SessionCreated" THEN saved ELSE sessions
          /\ allocated' = IF res = "SessionCreated" THEN allocated \cup {sid} ELSE allocated
    /\ UNCHANGED <<clock, attendances, users>>

\* POST /api/sessions/:id/regenerate-qr, up to the call of session.save():
\* Session.findById, then newQrToken = uuidv4() and session.qrToken = newQrToken
RegenFind(r, sid, newQrToken) ==
    /\ req[r].pc = "idle"
    /\ LET session == sessions[sid]
           q == [op |-> "regen", session |-> sid, doc |-> session,
                 token |-> newQrToken, pc |-> "saveToken", res |-> "none"]
       IN req' = [req EXCEPT ![r] =
            IF ~IsSession(session)
            THEN [q EXCEPT !.pc = "done", !.res = "NotFound"]
            ELSE q]
    /\ UNCHANGED <<clock, sessions, allocated, attendances, users>>

\* a save that writes the whole in-memory document back
SaveWholeDocument(stored, doc, newQrToken) == [doc EXCEPT !.qrToken = newQrToken]

\* what session.save() writes of a document whose only modified path is
\* qrToken: the update { $set: { qrToken } } on the stored document
SaveModified(stored, doc, newQrToken) == [stored EXCEPT !.qrToken = newQrToken]

\* a regeneration that also starts a new validity window of the code
RegenSaveExtending(r) ==
    /\ req[r].pc = "saveToken"
    /\ LET q == req[r]
           sid == q.session
       IN IF IsSession(sessions[sid])
          THEN LET saved == [sessions EXCEPT
                               ![sid] = [SaveModified(sessions[sid], q.doc, q.token)
                                           EXCEPT !.expiresAt = clock + ExpiryBufferMinutes]]
               IN IF UniqueQrToken(saved)
                  THEN /\ sessions' = saved
                       /\ req' = [req EXCEPT ![r] =
                                    [q EXCEPT !.pc = "done", !.res = "Regenerated"]]
                  ELSE /\ sessions' = sessions
                       /\ req' = [req EXCEPT ![r] =
                                    [q EXCEPT !.pc = "done", !.res = "ServerError"]]
          ELSE /\ sessions' = sessions
               /\ \E res \in {"Regenerated", "ServerError"} :
                    req' = [req EXCEPT ![r] = [q EXCEPT !.pc = "done", !.res = res]]
    /\ UNCHANGED <<clock, allocated, attendances, users>>

\* await session.save().  The update is refused by the unique index of
\* qrToken when another session holds the token (500).  When the document
\* has left the store in between, nothing is written, and whether save()
\* then rejects depends on the version of the library: both answers occur.
RegenSave(r) ==
    /\ req[r].pc = "saveToken"
    /\ LET q == req[r]
           sid == q.session
       IN IF IsSession(sessions[sid])
          THEN LET saved == [sessions EXCEPT
                               ![sid] = SaveModified(sessions[sid], q.doc, q.token)]
               IN IF UniqueQrToken(saved)
                  THEN /\ sessions' = saved
                       /\ req' = [req EXCEPT ![r] =
                                    [q EXCEPT !.pc = "done", !.res = "Regenerated"]]
                  ELSE /\ sessions' = sessions
                       /\ req' = [req EXCEPT ![r] =
                                    [q EXCEPT !.pc = "done", !.res = "ServerError"]]
          ELSE /\ sessions' = sessions
               /\ \E res \in {"Regenerated", "ServerError"} :
                    req' = [req EXCEPT ![r] = [q EXCEPT !.pc = "done", !.res = res]]
    /\ UNCHANGED <<clock, allocated, attendances, users>>

\* maxStudents absent from the body of PUT /api/sessions/:id
NoMaxStudents == 0

UpdateCapacities == {NoMaxStudents, 1, DefaultMaxStudents}

\* PUT /api/sessions/:id, up to the call of Session.findByIdAndUpdate:
\* Session.findById, the start check and the building of updateData
UpdateFind(r, sid, maxStudents) ==
    /\ req[r].pc = "idle"
    /\ LET session == sessions[sid]
           now == clock
           q == [op |-> "update", session |-> sid, maxStudents |-> maxStudents,
                 now |-> now, pc |-> "done", res |-> "none"]
       IN req' = [req EXCEPT ![r] =
            IF ~IsSession(session) THEN [q EXCEPT !.res = "NotFound"]
            ELSE IF DateGE(now, SessionStart(session))
            THEN [q EXCEPT !.res = "AlreadyStarted"]
            ELSE [q EXCEPT !.pc = "update"]]
    /\ UNCHANGED <<clock, sessions, allocated, attendances, users>>

\* await Session.findByIdAndUpdate(req.params.id, updateData, { new: true }):
\* without a document of that id the result is null and the answer is the same
UpdateWrite(r) ==
    /\ req[r].pc = "update"
    /\ LET q == req[r]
           sid == q.session
       IN sessions' = IF IsSession(sessions[sid]) /\ q.maxStudents # NoMaxStudents
                      THEN [sessions EXCEPT ![sid].maxStudents = q.maxStudents]
                      ELSE sessions
    /\ req' = [req EXCEPT ![r] = [@ EXCEPT !.pc = "done", !.res = "SessionUpdated"]]
    /\ UNCHANGED <<clock, allocated, attendances, users>>

\* DELETE /api/sessions/:id, up to the call of Attendance.deleteMany:
\* Session.findById and the start check
DeleteFind(r, sid) ==
    /\ req[r].pc = "idle"
    /\ LET session == sessions[sid]
           now == clock
           q == [op |-> "delete", session |-> sid, now |-> now,
                 pc |-> "done", res |-> "none"]
       IN req' = [req EXCEPT ![r] =
            IF ~IsSession(session) THEN [q EXCEPT !.res = "NotFound"]
            ELSE IF DateGE(now, SessionStart(session))
            THEN [q EXCEPT !.res = "AlreadyStarted"]
            ELSE [q EXCEPT !.pc = "deleteMany"]]
    /\ UNCHANGED <<clock, sessions, allocated, attendances, users>>

\* await Attendance.deleteMany({ session: session._id })
DeleteRecords(r) ==
    /\ req[r].pc = "deleteMany"
    /\ attendances' = {a \in attendances : a.session # req[r].session}
    /\ req' = [req EXCEPT ![r].pc = "deleteSession"]
    /\ UNCHANGED <<clock, sessions, allocated, users>>

\* await Session.findByIdAndDelete(req.params.id) and the response
DeleteSession(r) ==
    /\ req[r].pc = "deleteSession"
    /\ sessions' = [sessions EXCEPT ![req[r].session] = NoSession]
    /\ req' = [req EXCEPT ![r] = [@ EXCEPT !.pc = "done", !.res = "SessionDeleted"]]
    /\ UNCHANGED <<clock, allocated, attendances, users>>

\* sessionSchema.index({ expiresAt: 1 }, { expireAfterSeconds: 0 }): the
\* store's TTL monitor removes a session document once expiresAt has passed
TTLExpire(sid) ==
    /\ IsSession(sessions[sid])
    /\ clock > sessions[sid].expiresAt
    /\ sessions' = [sessions EXCEPT ![sid] = NoSession]
    /\ UNCHANGED <<clock, allocated, attendances, users, req>>

\* time passes
Tick ==
    /\ \E t \in Instants : t > clock /\ clock' = t
    /\ UNCHANGED <<sessions, allocated, attendances, users, req>>

-----------------------------------------------------------------------------
(* The store when the server connects to it *)

SeedSession(active, count) ==
    [id |-> 1, date |-> Today, startTime |-> TwoDigits(T0900),
     endTime |-> TwoDigits(T1000),
     qrToken |-> "k1", isActive |-> active,
     expiresAt |-> Today + T1000 + ExpiryBufferMinutes,
     maxStudents |-> 1, attendanceCount |-> count]

SeedAttendances ==
    { [id |-> 1, student |-> 1, session |-> 1, status |-> "present",
       markedAt |-> Today + T0900, method |-> "qr_code",
       faceConfidence |-> NoConfidence, isVerified |-> TRUE,
       remarks |-> NoRemarks],
      [id |-> 2, student |-> 1, session |-> 1, status |-> "present",
       markedAt |-> Today + T0900, method |-> "face_recognition",
       faceConfidence |-> 80, isVerified |-> TRUE,
       remarks |-> NoRemarks] }

Init ==
    /\ clock \in {Today, Today + T0900}
    /\ attendances \in { S \in SUBSET SeedAttendances :
                           /\ UniqueStudentSession(S)
                           /\ \A a \in S : a.markedAt <= clock }
    /\ \E active \in BOOLEAN :
         sessions = [i \in SessionIds |->
                       IF i = 1 THEN SeedSession(active, Cardinality(attendances))
                       ELSE NoSession]
    /\ allocated = {1}
    /\ users = [s \in Students |-> s = 1]
    /\ req = [r \in Reqs |-> Idle]

\* one attendance request at a time, with every request body, beside
\* session creation, the TTL monitor and the clock
Next ==
    \/ \E st \in Students, sid \in SessionIds, tok \in Tokens,
          m \in Methods, fc \in Confidences :
         ScanFindSession("r1", st, sid, tok, m, fc)
    \/ ScanFindExisting("r1")
    \/ ScanSave("r1")
    \/ \E r \in Reqs : Finish(r)
    \/ \E date \in Dates, startTime \in Times, endTime \in Times,
          qrToken \in Tokens, maxStudents \in Capacities :
         CreateSession("r2", date, startTime, endTime, qrToken, maxStudents)
    \/ \E sid \in SessionIds : TTLExpire(sid)
    \/ Tick

Spec == Init /\ [][Next]_vars

\* attendance requests racing each other on the seeded session with its
\* current token
NextRace ==
    \/ \E r \in Reqs, st \in Students, m \in Methods :
         ScanFindSession(r, st, 1, "k1", m, 80)
    \/ \E r \in Reqs : ScanFindExisting(r)
    \/ \E r \in Reqs : ScanSave(r)
    \/ \E r \in Reqs : Finish(r)
    \/ \E sid \in SessionIds : TTLExpire(sid)
    \/ Tick

SpecRace == Init /\ [][NextRace]_vars

\* face_recognition requests on the seeded session with its current token,
\* with every confidence, while students register and remove their
\* embeddings, at one instant (no check after the session lookup reads the
\* clock)
NextFace ==
    \/ \E st \in Students, fc \in Confidences :
         ScanFindSession("r1", st, 1, "k1", "face_recognition", fc)
    \/ ScanFindExisting("r1")
    \/ ScanSave("r1")
    \/ Finish("r1")
    \/ \E st \in Students : RegisterFace(st)
    \/ \E st \in Students : RemoveFace(st)

SpecFace == Init /\ [][NextFace]_vars

\* two face_recognition requests racing on the seeded session with its
\* current token, one with every confidence beside one that states a
\* confidence of 0.8, while no embedding is registered or removed
NextProof ==
    \/ \E st \in Students, fc \in Confidences :
         ScanFindSession("r1", st, 1, "k1", "face_recognition", fc)
    \/ \E st \in Students :
         ScanFindSession("r2", st, 1, "k1", "face_recognition", VerifiedThreshold)
    \/ \E r \in Reqs : ScanFindExisting(r)
    \/ \E r \in Reqs : ScanSave(r)
    \/ \E r \in Reqs : Finish(r)

SpecProof == Init /\ [][NextProof]_vars

\* the session routes: a regeneration beside a creation or an update, the
\* TTL monitor and the clock
NextSession ==
    \/ \E sid \in SessionIds, newQrToken \in Tokens : RegenFind("r1", sid, newQrToken)
    \/ RegenSave("r1")
    \/ \E sid \in SessionIds, maxStudents \in UpdateCapacities :
         UpdateFind("r2", sid, maxStudents)
    \/ UpdateWrite("r2")
    \/ \E date \in Dates, startTime \in Times, endTime \in Times,
          qrToken \in Tokens, maxStudents \in Capacities :
         CreateSession("r2", date, startTime, endTime, qrToken, maxStudents)
    \/ \E r \in Reqs : Finish(r)
    \/ \E sid \in SessionIds : TTLExpire(sid)
    \/ Tick

SpecSession == Init /\ [][NextSession]_vars

\* regenerations of the seeded session's token beside qr_code attendance
\* requests that present one token or the other
NextRotate ==
    \/ \E newQrToken \in Tokens : RegenFind("r1", 1, newQrToken)
    \/ RegenSave("r1")
    \/ \E st \in Students, tok \in Tokens :
         ScanFindSession("r2", st, 1, tok, "qr_code", NoConfidence)
    \/ ScanFindExisting("r2")
    \/ ScanSave("r2")
    \/ \E r \in Reqs : Finish(r)
    \/ \E sid \in SessionIds : TTLExpire(sid)
    \/ Tick

SpecRotate == Init /\ [][NextRotate]_vars

\* a deletion beside a creation, the TTL monitor and the clock
NextDelete ==
    \/ \E sid \in SessionIds : DeleteFind("r1", sid)
    \/ DeleteRecords("r1")
    \/ DeleteSession("r1")
    \/ \E date \in Dates, startTime \in Times, endTime \in Times,
          qrToken \in Tokens, maxStudents \in Capacities :
         CreateSession("r2", date, startTime, endTime, qrToken, maxStudents)
    \/ \E r \in Reqs : Finish(r)
    \/ \E sid \in SessionIds : TTLExpire(sid)
    \/ Tick

SpecDelete == Init /\ [][NextDelete]_vars

\* qr_code attendance requests of the seeded session with one token or the
\* other beside every request that writes a session: an update, a regeneration or
\* a deletion
NextLifecycle ==
    \/ \E st \in Students, tok \in Tokens :
         ScanFindSession("r1", st, 1, tok, "qr_code", NoConfidence)
    \/ ScanFindExisting("r1")
    \/ ScanSave("r1")
    \/ \E maxStudents \in UpdateCapacities : UpdateFind("r2", 1, maxStudents)
    \/ UpdateWrite("r2")
    \/ \E newQrToken \in Tokens : RegenFind("r2", 1, newQrToken)
    \/ RegenSave("r2")
    \/ DeleteFind("r2", 1)
    \/ DeleteRecords("r2")
    \/ DeleteSession("r2")
    \/ \E r \in Reqs : Finish(r)
    \/ \E sid \in SessionIds : TTLExpire(sid)
    \/ Tick

SpecLifecycle == Init /\ [][NextLifecycle]_vars

\* removals of attendance records racing each other beside a revision, the
\* TTL monitor and the clock
NextLedger ==
    \/ \E r \in Reqs, id \in AttendanceIds : RemoveFind(r, id)
    \/ \E r \in Reqs : RemoveDelete(r)
    \/ \E r \in Reqs : RemoveDec(r)
    \/ \E id \in AttendanceIds, status \in Statuses, remarks \in Remarks :
         ReviseFind("r2", id, status, remarks)
    \/ ReviseWrite("r2")
    \/ \E r \in Reqs : Finish(r)
    \/ \E sid \in SessionIds : TTLExpire(sid)
    \/ Tick

SpecLedger == Init /\ [][NextLedger]_vars

\* the similarity function applied to every pair of request arrays: a
\* comparison request has been received with its body
InitScore ==
    /\ clock = Today
    /\ attendances = {}
    /\ sessions = [i \in SessionIds |-> IF i = 1 THEN SeedSession(TRUE, 0) ELSE NoSession]
    /\ allocated = {1}
    /\ users = [s \in Students |-> s = 1]
    /\ \E embedding1 \in Embeddings, embedding2 \in Embeddings :
         req = [r \in Reqs |->
                  IF r = "r1"
                  THEN [op |-> "compare", pc |-> "received", res |-> "none",
                        embedding1 |-> embedding1, embedding2 |-> embedding2,
                        similarity |-> NotANumber]
                  ELSE Idle]

NextScore ==
    \/ Compare("r1")
    \/ Finish("r1")

SpecScore == InitScore /\ [][NextScore]_vars

\* qr_code attendance requests of the seeded session with its token beside
\* removals of attendance records that race each other
NextReadmit ==
    \/ \E st \in Students : ScanFindSession("r1", st, 1, "k1", "qr_code", NoConfidence)
    \/ ScanFindExisting("r1")
    \/ ScanSave("r1")
    \/ \E r \in Reqs, id \in AttendanceIds : RemoveFind(r, id)
    \/ \E r \in Reqs : RemoveDelete(r)
    \/ \E r \in Reqs : RemoveDec(r)
    \/ \E r \in Reqs : Finish(r)
    \/ \E sid \in SessionIds : TTLExpire(sid)
    \/ Tick

SpecReadmit == Init /\ [][NextReadmit]_vars

-----------------------------------------------------------------------------
(* Properties *)

ScanDone(r) == req[r].op = "scan" /\ req[r].pc = "done"

\* the request passed every check of the handler and built its document
BuiltDocument(r) == req[r].op = "scan" /\ IsAttendance(req[r].doc)

RecordsOf(docs, st, sid) == {a \in docs : a.student = st /\ a.session = sid}

RecordsOfSession(docs, sid) == {a \in docs : a.session = sid}

\* the instant a session is scheduled to start at: startTime of its date
ScheduledStart(s) == s.date + s.startTime.min

\* r takes the first step of scan-qr (the session lookup and the time checks)
LookupStep(r) == req[r].pc = "idle" /\ req'[r].op = "scan"

\* r takes the step of the duplicate check
ExistingStep(r) == req[r].pc = "findExisting" /\ req'[r].pc # "findExisting"

\* the lookup of r's step finds a session with the presented token, active
Presentable(r) ==
    LET s == sessions[req'[r].session] IN
    IsSession(s) /\ s.qrToken = req'[r].token /\ s.isActive

\* C1: in every reachable state the store holds at most one attendance
\* record for each (student, session) pair, whatever requests race
C1_AtMostOneRecordPerPair ==
    \A st \in Students, sid \in SessionIds :
        Cardinality(RecordsOf(attendances, st, sid)) <= 1

\* two requests of one student for one session both passed the duplicate
\* check and both had their save answered
C1_Witness ==
    \E r1, r2 \in Reqs :
        /\ r1 # r2
        /\ ScanDone(r1) /\ ScanDone(r2)
        /\ BuiltDocument(r1) /\ BuiltDocument(r2)
        /\ req[r1].student = req[r2].student
        /\ req[r1].session = req[r2].session

\* C2: of two requests of one student for one session that both passed the
\* checks, one is Accepted and the other is DuplicateAdmission
C2_OneAcceptedOneDuplicate ==
    \A r1, r2 \in Reqs :
        ( /\ r1 # r2
          /\ ScanDone(r1) /\ ScanDone(r2)
          /\ BuiltDocument(r1) /\ BuiltDocument(r2)
          /\ req[r1].student = req[r2].student
          /\ req[r1].session = req[r2].session )
        => {Outcome(req[r1].res), Outcome(req[r2].res)}
             = {"Accepted", "DuplicateAdmission"}

C4_ValidAttemptAccepted ==
    \A r \in Reqs :
        (ScanDone(r) /\ BuiltDocument(r) /\ req[r].method = "qr_code")
        => /\ Outcome(req[r].res) = "Accepted"
           /\ \E a \in attendances :
                /\ a.id = req[r].doc.id
                /\ a.student = req[r].student
                /\ a.session = req[r].session

\* C5: an attempt on an active session with its token is rejected as expired
\* (InvalidTicket, nothing stored) exactly when now > expiresAt
C5_ExpiryBoundary ==
    [][ \A r \in Reqs :
          (LookupStep(r) /\ Presentable(r)) =>
            LET s == sessions[req'[r].session] IN
            /\ clock > s.expiresAt =>
                 /\ req'[r].pc = "done"
                 /\ req'[r].res = "Expired"
                 /\ Outcome(req'[r].res) = "InvalidTicket"
                 /\ attendances' = attendances
                 /\ sessions' = sessions
            /\ clock <= s.expiresAt => req'[r].res \notin {"Expired", "InvalidQR"} ]_vars

\* an attempt made at now = expiresAt went past the expiry check
C5_Witness ==
    \E r \in Reqs :
        /\ req[r].op = "scan"
        /\ IsSession(sessions[req[r].session])
        /\ sessions[req[r].session].qrToken = req[r].token
        /\ req[r].now = sessions[req[r].session].expiresAt
        /\ req[r].res \notin {"Expired", "InvalidQR"}

\* C6: an attempt on an active, unexpired session with its token is rejected
\* as NotStarted (nothing stored) exactly when now < the session's start
C6_NotStartedBoundary ==
    [][ \A r \in Reqs :
          (LookupStep(r) /\ Presentable(r)
             /\ clock <= sessions[req'[r].session].expiresAt) =>
            LET s == sessions[req'[r].session] IN
            /\ clock < ScheduledStart(s) =>
                 /\ req'[r].pc = "done"
                 /\ req'[r].res = "NotStarted"
                 /\ Outcome(req'[r].res) = "NotStarted"
                 /\ attendances' = attendances
                 /\ sessions' = sessions
            /\ clock >= ScheduledStart(s) => req'[r].res # "NotStarted" ]_vars

\* C7: an attempt is rejected as InvalidTicket, with nothing stored, when
\* the session id is unknown, the token is not the session's current token or
\* the session is not active
C7_InvalidTicket ==
    [][ \A r \in Reqs :
          (LookupStep(r) /\ ~Presentable(r)) =>
            /\ req'[r].pc = "done"
            /\ req'[r].res = "InvalidQR"
            /\ Outcome(req'[r].res) = "InvalidTicket"
            /\ attendances' = attendances
            /\ sessions' = sessions ]_vars

\* an attempt with another token than that of an active session inside its
\* window was answered
C7_Witness ==
    \E r \in Reqs :
        /\ ScanDone(r)
        /\ IsSession(sessions[req[r].session])
        /\ sessions[req[r].session].isActive
        /\ sessions[req[r].session].qrToken # req[r].token
        /\ req[r].now >= ScheduledStart(sessions[req[r].session])
        /\ req[r].now <= sessions[req[r].session].expiresAt
        /\ req[r].res = "InvalidQR"

\* C8: when the store holds a record of (student, session) at the duplicate
\* check, the attempt is rejected as DuplicateAdmission with that record, and
\* neither the records nor the sessions change
C8_DuplicateRejected ==
    [][ \A r \in Reqs :
          (ExistingStep(r)
             /\ RecordsOf(attendances, req[r].student, req[r].session) # {}) =>
            /\ req'[r].pc = "done"
            /\ req'[r].res = "AlreadyMarked"
            /\ Outcome(req'[r].res) = "DuplicateAdmission"
            /\ req'[r].attendance
                 \in RecordsOf(attendances, req[r].student, req[r].session)
            /\ attendances' = attendances
            /\ sessions' = sessions ]_vars

\* an attempt of a student who has a record was answered with that record
C8_Witness ==
    \E r \in Reqs :
        /\ ScanDone(r)
        /\ req[r].res = "AlreadyMarked"
        /\ req[r].attendance \in attendances
        /\ req[r].attendance.student = req[r].student
        /\ req[r].attendance.session = req[r].session

\* C9: an admission stores its record with status late when markedAt is
\* later than the session's start + 15 minutes, and present otherwise
C9_StatusFromTiming ==
    \A r \in Reqs :
        (ScanDone(r) /\ BuiltDocument(r) /\ IsSession(sessions[req[r].session]))
        => \E a \in attendances :
             /\ a.id = req[r].doc.id
             /\ a.status =
                  IF a.markedAt > ScheduledStart(sessions[req[r].session]) + LateMinutes
                  THEN "late" ELSE "present"

\* C10: a face_recognition attempt of a student with a registered face, with
\* a confidence, past the duplicate check, is rejected as LowConfidence when
\* the confidence is below the threshold and Accepted otherwise
C10_ThresholdDecides ==
    \A r \in Reqs :
        ( /\ ScanDone(r)
          /\ req[r].method = "face_recognition"
          /\ req[r].hasFace
          /\ req[r].faceConfidence # NoConfidence
          /\ req[r].res \notin {"InvalidQR", "Expired", "NotStarted", "AlreadyMarked"} )
        => Outcome(req[r].res) =
             IF req[r].faceConfidence < FaceThreshold
             THEN "LowConfidence" ELSE "Accepted"

\* the request went past the session, time and duplicate checks
PastDuplicateCheck(r) ==
    /\ ScanDone(r)
    /\ req[r].res \notin {"InvalidQR", "Expired", "NotStarted", "AlreadyMarked"}

\* isVerified as the method and the confidence of a record determine it
VerifiedFor(m, fc) ==
    IF m = "face_recognition" THEN fc >= VerifiedThreshold ELSE TRUE

\* C11: every record in the store has isVerified true when its method is
\* qr_code and (faceConfidence >= 0.8) when it is face_recognition, and an
\* attempt that passes every check (one with a confidence of 0.6 included,
\* below 0.8) is Accepted with such a record in the store
C11_VerifiedFlag ==
    /\ \A a \in attendances : a.isVerified = VerifiedFor(a.method, a.faceConfidence)
    /\ \A r \in Reqs :
         (ScanDone(r) /\ BuiltDocument(r)) =>
           /\ Outcome(req[r].res) = "Accepted"
           /\ \E a \in attendances :
                /\ a.id = req[r].doc.id
                /\ a.isVerified = VerifiedFor(req[r].method, req[r].faceConfidence)

\* C12 as stated: a face_recognition attempt of a student without an
\* embedding that reaches the duplicate check (valid, started session) is
\* rejected as BiometricNotRegistered, whatever confidence it states, and
\* nothing is stored
C12_NotRegisteredRejected ==
    [][ \A r \in Reqs :
          (ExistingStep(r) /\ req[r].method = "face_recognition"
             /\ ~req[r].hasFace) =>
            /\ req'[r].pc = "done"
            /\ Outcome(req'[r].res) = "BiometricNotRegistered"
            /\ attendances' = attendances
            /\ sessions' = sessions ]_vars

\* C12 as amended: such an attempt is rejected as BiometricNotRegistered when
\* the student has no record of the session, and as DuplicateAdmission when
\* the student has one; in both cases nothing is stored
C12_NotRegisteredWithoutRecord ==
    [][ \A r \in Reqs :
          (ExistingStep(r) /\ req[r].method = "face_recognition"
             /\ ~req[r].hasFace) =>
            /\ req'[r].pc = "done"
            /\ Outcome(req'[r].res) =
                 IF RecordsOf(attendances, req[r].student, req[r].session) = {}
                 THEN "BiometricNotRegistered" ELSE "DuplicateAdmission"
            /\ attendances' = attendances
            /\ sessions' = sessions ]_vars

\* a student without an embedding and without a record, stating a confidence
\* above both thresholds, was answered BiometricNotRegistered
C12_Witness ==
    \E r \in Reqs :
        /\ ScanDone(r)
        /\ req[r].method = "face_recognition"
        /\ ~req[r].hasFace
        /\ req[r].faceConfidence >= VerifiedThreshold
        /\ req[r].res = "FaceNotRegistered"
        /\ RecordsOf(attendances, req[r].student, req[r].session) = {}

\* C13: a face_recognition attempt of a student with an embedding, past
\* the duplicate check, is rejected as MissingProof when it states no
\* confidence and as LowConfidence when it states a confidence of 0
C13_MissingProofDistinct ==
    \A r \in Reqs :
        ( /\ PastDuplicateCheck(r)
          /\ req[r].method = "face_recognition"
          /\ req[r].hasFace )
        => /\ req[r].faceConfidence = NoConfidence
                => Outcome(req[r].res) = "MissingProof"
           /\ req[r].faceConfidence = 0
                => Outcome(req[r].res) = "LowConfidence"

\* C14: the confidence a face_recognition attempt is decided on is a
\* function of the student's stored embedding and of the presented proof:
\* two attempts of one student, whose embedding does not change and whose
\* requests present no different proof, past the duplicate check, get the
\* same decision
C14_ScoreFromProfile ==
    \A r1, r2 \in Reqs :
        ( /\ PastDuplicateCheck(r1) /\ PastDuplicateCheck(r2)
          /\ req[r1].method = "face_recognition"
          /\ req[r2].method = "face_recognition"
          /\ req[r1].student = req[r2].student
          /\ req[r1].hasFace /\ req[r2].hasFace )
        => (req[r1].res = "LowConfidence") = (req[r2].res = "LowConfidence")

\* the instant a session is scheduled to end at: endTime of its date
ScheduledEnd(s) == s.date + s.endTime.min

\* C15: every session in the store ends strictly after it starts (a creation
\* whose end is not after its start having failed and stored nothing)
C15_EndAfterStart ==
    \A sid \in SessionIds :
        IsSession(sessions[sid]) =>
            ScheduledEnd(sessions[sid]) > ScheduledStart(sessions[sid])

\* C16: after every step, each session in the store has expiresAt at 30
\* minutes past its scheduled end, and a session that the step created is
\* active with an attendanceCount of 0
C16_ExpiryIsEndPlusBuffer ==
    [][ \A sid \in SessionIds :
          IsSession(sessions'[sid]) =>
            /\ sessions'[sid].expiresAt
                 = ScheduledEnd(sessions'[sid]) + ExpiryBufferMinutes
            /\ ~IsSession(sessions[sid]) =>
                 /\ sessions'[sid].isActive
                 /\ sessions'[sid].attendanceCount = 0 ]_vars

\* a created session had its token regenerated and its capacity updated
C16_Witness ==
    \E g \in Reqs :
        /\ req[g].op = "regen" /\ req[g].pc = "done"
        /\ req[g].res = "Regenerated"
        /\ req[g].session # 1
        /\ IsSession(sessions[req[g].session])
        /\ sessions[req[g].session].qrToken # req[g].doc.qrToken
        /\ sessions[req[g].session].maxStudents # req[g].doc.maxStudents

\* C17: after every step no two sessions in the store hold the same token,
\* and a creation or regeneration whose save is refused leaves the sessions
\* as they were
C17_TokensUnique ==
    [][ /\ \A x, y \in SessionIds :
             (IsSession(sessions'[x]) /\ IsSession(sessions'[y]) /\ x # y)
               => sessions'[x].qrToken # sessions'[y].qrToken
        /\ \A r \in Reqs :
             (req[r].pc # "done" /\ req'[r].pc = "done"
                /\ req'[r].op \in {"create", "regen"}
                /\ req'[r].res = "ServerError")
               => sessions' = sessions ]_vars

\* a regeneration drew the token of another session and was refused
C17_Witness ==
    \E g \in Reqs, sid \in SessionIds :
        /\ req[g].op = "regen" /\ req[g].pc = "done"
        /\ req[g].res = "ServerError"
        /\ sid # req[g].session
        /\ IsSession(sessions[req[g].session])
        /\ IsSession(sessions[sid])
        /\ sessions[sid].qrToken = req[g].token
        /\ sessions[req[g].session].qrToken = req[g].doc.qrToken

\* r takes the step of session.save() of regenerate-qr
RegenStep(r) == req[r].pc = "saveToken" /\ req'[r].pc = "done"

\* C18: the save of a regeneration changes nothing but the qrToken of its
\* session: every other field of that session keeps the value the store
\* holds at the save, other sessions and the records are untouched
C18_RegenerateFrame ==
    [][ \A r \in Reqs :
          RegenStep(r) =>
            /\ attendances' = attendances
            /\ \A sid \in SessionIds :
                 IF IsSession(sessions[sid]) /\ sid = req[r].session
                 THEN /\ IsSession(sessions'[sid])
                      /\ sessions'[sid]
                           = [sessions[sid] EXCEPT !.qrToken = sessions'[sid].qrToken]
                 ELSE sessions'[sid] = sessions[sid] ]_vars

\* a regeneration replaced the token of a session whose capacity an update
\* had changed between the regeneration's read and its save
C18_Witness ==
    \E g \in Reqs :
        /\ req[g].op = "regen" /\ req[g].pc = "done"
        /\ req[g].res = "Regenerated"
        /\ IsSession(sessions[req[g].session])
        /\ sessions[req[g].session].qrToken = req[g].token
        /\ req[g].token # req[g].doc.qrToken
        /\ sessions[req[g].session].maxStudents # req[g].doc.maxStudents
        /\ sessions[req[g].session].attendanceCount = req[g].doc.attendanceCount

\* g is a regeneration that replaced the token of its session, which still
\* holds the new token
Rotated(g) ==
    /\ req[g].op = "regen" /\ req[g].pc = "done"
    /\ req[g].res = "Regenerated"
    /\ req[g].token # req[g].doc.qrToken
    /\ IsSession(sessions[req[g].session])
    /\ sessions[req[g].session].qrToken = req[g].token

\* C19: an attendance request that starts after a regeneration replaced the
\* token of its session is rejected as InvalidTicket, with nothing stored,
\* when it presents the previous token, and is not rejected as InvalidTicket
\* for its token when it presents the new one
C19_OldTokenRejected ==
    [][ \A r, g \in Reqs :
          (Rotated(g) /\ LookupStep(r) /\ req'[r].session = req[g].session) =>
            /\ req'[r].token = req[g].doc.qrToken =>
                 /\ req'[r].pc = "done"
                 /\ Outcome(req'[r].res) = "InvalidTicket"
                 /\ attendances' = attendances
                 /\ sessions' = sessions
            /\ (req'[r].token = req[g].token
                  /\ sessions[req[g].session].isActive)
                 => req'[r].res # "InvalidQR" ]_vars

\* after a regeneration, a request inside the session's window that
\* presented the previous token was answered InvalidTicket
C19_Witness ==
    \E r, g \in Reqs :
        /\ Rotated(g)
        /\ ScanDone(r)
        /\ req[r].session = req[g].session
        /\ req[r].token = req[g].doc.qrToken
        /\ req[r].res = "InvalidQR"
        /\ sessions[req[g].session].isActive
        /\ req[r].now >= ScheduledStart(sessions[req[g].session])
        /\ req[r].now <= sessions[req[g].session].expiresAt

\* r takes the first step of PUT /api/sessions/:id
UpdateFindStep(r) == req[r].pc = "idle" /\ req'[r].op = "update"

\* C20: an update of a session at or after its scheduled start fails as
\* AlreadyStarted and changes nothing, and the write of an update changes
\* nothing but the maxStudents of its session
C20_ModifyBeforeStartOnly ==
    [][ \A r \in Reqs :
          /\ ( /\ UpdateFindStep(r)
                /\ IsSession(sessions[req'[r].session])
                /\ clock >= ScheduledStart(sessions[req'[r].session]) )
               => /\ req'[r].pc = "done"
                  /\ req'[r].res = "AlreadyStarted"
                  /\ sessions' = sessions
          /\ (req[r].pc = "update" /\ req'[r].pc = "done")
               => \A sid \in SessionIds :
                    IF IsSession(sessions[sid])
                    THEN /\ IsSession(sessions'[sid])
                         /\ sessions'[sid]
                              = [sessions[sid] EXCEPT
                                   !.maxStudents = sessions'[sid].maxStudents]
                    ELSE sessions'[sid] = sessions[sid] ]_vars

\* r takes the first step of DELETE /api/sessions/:id
DeleteFindStep(r) == req[r].pc = "idle" /\ req'[r].op = "delete"

\* C21: a deletion of a session at or after its scheduled start fails as
\* AlreadyStarted and removes nothing, and a deletion that succeeds has
\* removed the session and every attendance record that references it
C21_DeleteBeforeStartOnly ==
    [][ \A r \in Reqs :
          /\ ( /\ DeleteFindStep(r)
                /\ IsSession(sessions[req'[r].session])
                /\ clock >= ScheduledStart(sessions[req'[r].session]) )
               => /\ req'[r].pc = "done"
                  /\ req'[r].res = "AlreadyStarted"
                  /\ sessions' = sessions
                  /\ attendances' = attendances
          /\ (req[r].pc = "deleteSession" /\ req'[r].pc = "done")
               => /\ req'[r].res = "SessionDeleted"
                  /\ ~IsSession(sessions'[req[r].session])
                  /\ RecordsOfSession(attendances', req[r].session) = {} ]_vars

\* C22: a session leaves the store only before its scheduled start, be it
\* removed by a deletion or by the TTL monitor
C22_RemovedBeforeStartOnly ==
    [][ \A sid \in SessionIds :
          (IsSession(sessions[sid]) /\ ~IsSession(sessions'[sid]))
            => clock < ScheduledStart(sessions[sid]) ]_vars

\* C23: in every state of a session some request makes (or leaves) it
\* inactive, and an attendance request of an inactive session is answered
\* as an invalid ticket
C23_RevokeAlwaysPermitted ==
    /\ \A sid \in SessionIds :
         IsSession(sessions[sid])
           => ENABLED ( /\ NextLifecycle
                        /\ IsSession(sessions'[sid])
                        /\ ~sessions'[sid].isActive )
    /\ \A r \in Reqs :
         ( /\ ScanDone(r)
           /\ IsSession(sessions[req[r].session])
           /\ ~sessions[req[r].session].isActive )
           => Outcome(req[r].res) = "InvalidTicket"

\* C24: the attendanceCount of a session is never negative, also when two
\* removals of the same attendance record race each other
C24_CountNonNegative ==
    \A sid \in SessionIds :
        IsSession(sessions[sid]) => sessions[sid].attendanceCount >= 0

\* C25: an attendance request that passes every check is accepted also when
\* the attendanceCount of its session has reached maxStudents
C25_CapacityAdvisory ==
    \A r \in Reqs :
        ( /\ ScanDone(r)
          /\ BuiltDocument(r)
          /\ IsSession(sessions[req[r].session])
          /\ sessions[req[r].session].attendanceCount
               >= sessions[req[r].session].maxStudents )
          => Outcome(req[r].res) = "Accepted"

\* r takes the first step of PUT /api/attendance/:id
ReviseFindStep(r) == req[r].pc = "idle" /\ req'[r].op = "revise"

\* C26: a revision of an id no record has fails as NotFound and changes
\* nothing; the write of a revision changes nothing but the status and the
\* remarks of its record; and no step changes the session, student,
\* markedAt, method, faceConfidence or isVerified of a record
C26_ReviseFrame ==
    [][ /\ \A r \in Reqs :
             ( /\ ReviseFindStep(r)
               /\ ~IsAttendance(FindAttendanceById(req'[r].attendance)) )
               => /\ req'[r].pc = "done"
                  /\ req'[r].res = "NotFound"
                  /\ attendances' = attendances
                  /\ sessions' = sessions
        /\ \A r \in Reqs :
             (req[r].pc = "revise" /\ req'[r].pc = "done")
               => /\ sessions' = sessions
                  /\ {b.id : b \in attendances'} = {a.id : a \in attendances}
                  /\ \A a \in attendances, b \in attendances' :
                       a.id = b.id
                         => \/ b = a
                            \/ /\ a.id = req[r].attendance
                               /\ b = [a EXCEPT !.status = b.status,
                                                 !.remarks = b.remarks]
        /\ \A a \in attendances, b \in attendances' :
             a.id = b.id
               => /\ b.session = a.session
                  /\ b.student = a.student
                  /\ b.markedAt = a.markedAt
                  /\ b.method = a.method
                  /\ b.faceConfidence = a.faceConfidence
                  /\ b.isVerified = a.isVerified ]_vars

\* a revision has set the status and the remarks of a record
C26_Witness ==
    \E r \in Reqs :
        /\ req[r].op = "revise"
        /\ req[r].pc = "done"
        /\ req[r].res = "AttendanceUpdated"
        /\ \E a \in attendances :
             /\ a.id = req[r].attendance
             /\ a.status = "absent"
             /\ a.remarks = "excused"
             /\ a.isVerified

C28_ExpiryPermanent ==
    [][ /\ \A sid \in SessionIds :
             (IsSession(sessions[sid]) /\ clock > sessions[sid].expiresAt)
               => \/ ~IsSession(sessions'[sid])
                  \/ clock' > sessions'[sid].expiresAt
        /\ \A sid \in allocated :
             ~IsSession(sessions[sid]) => ~IsSession(sessions'[sid])
        /\ \A r \in Reqs :
             ( /\ LookupStep(r)
               /\ IsSession(sessions[req'[r].session])
               /\ clock > sessions[req'[r].session].expiresAt )
               => /\ req'[r].pc = "done"
                  /\ Outcome(req'[r].res) = "InvalidTicket" ]_vars

\* a request that presents the regenerated token of the active session
\* after its expiresAt has been answered Expired
C28_Witness ==
    \E r \in Reqs :
        /\ ScanDone(r)
        /\ req[r].res = "Expired"
        /\ req[r].token = "k2"
        /\ IsSession(sessions[req[r].session])
        /\ sessions[req[r].session].qrToken = "k2"
        /\ sessions[req[r].session].isActive
        /\ req[r].now > sessions[req[r].session].expiresAt

\* the comparison of r has been answered with a similarity
Compared(r) == req[r].op = "compare" /\ req[r].pc = "done" /\ req[r].res = "Compared"

\* C29: the similarity of two arrays of the same length is the similarity
\* of the two in the other order
C29_ScoreSymmetric ==
    \A r \in Reqs :
        Compared(r)
          => LET swapped == calculateCosineSimilarity(req[r].embedding2, req[r].embedding1)
             IN /\ ~swapped.threw
                /\ req[r].similarity = swapped.value

\* two different arrays that are neither orthogonal nor parallel have been
\* compared
C29_Witness ==
    \E r \in Reqs :
        /\ Compared(r)
        /\ req[r].embedding1 # req[r].embedding2
        /\ req[r].similarity.kind = "number"
        /\ req[r].similarity.value > 0
        /\ req[r].similarity.value < Unit - 1

\* every component of the array is 0: its norm is zero
ZeroVector(embedding) == \A i \in 1 .. Len(embedding) : embedding[i] = 0

\* C30: the comparison of two arrays of the same length one of which has a
\* zero norm is answered with the similarity 0: it neither fails nor yields
\* the NaN of a division by zero
C30_ZeroNormGivesZero ==
    \A r \in Reqs :
        ( /\ req[r].op = "compare"
          /\ req[r].pc = "done"
          /\ Len(req[r].embedding1) = EmbeddingLength
          /\ Len(req[r].embedding2) = EmbeddingLength
          /\ (ZeroVector(req[r].embedding1) \/ ZeroVector(req[r].embedding2)) )
          => /\ req[r].res = "Compared"
             /\ req[r].similarity = Number(0)

\* an array of zeros has been compared with one that has a component other
\* than 0
C30_Witness ==
    \E r \in Reqs :
        /\ Compared(r)
        /\ ZeroVector(req[r].embedding1)
        /\ ~ZeroVector(req[r].embedding2)
        /\ req[r].similarity = Number(0)

\* C31: the reason a request is refused with is that of the first check
\* that fails, in the order InvalidTicket (no session of that id, another
\* token, inactive, expired), NotStarted, DuplicateAdmission,
\* BiometricNotRegistered, MissingProof, LowConfidence
C31_FirstFailingCheck ==
    [][ \A r \in Reqs :
          /\ LookupStep(r)
               => LET q == req'[r]
                      s == sessions[q.session]
                  IN IF \/ ~IsSession(s)
                        \/ s.qrToken # q.token
                        \/ ~s.isActive
                        \/ clock > s.expiresAt
                     THEN q.pc = "done" /\ Outcome(q.res) = "InvalidTicket"
                     ELSE IF clock < ScheduledStart(s)
                     THEN q.pc = "done" /\ Outcome(q.res) = "NotStarted"
                     ELSE q.pc = "findExisting"
          /\ ExistingStep(r)
               => LET q == req'[r]
                  IN IF RecordsOf(attendances, q.student, q.session) # {}
                     THEN q.pc = "done" /\ Outcome(q.res) = "DuplicateAdmission"
                     ELSE IF q.method = "face_recognition" /\ ~q.hasFace
                     THEN q.pc = "done" /\ Outcome(q.res) = "BiometricNotRegistered"
                     ELSE IF q.method = "face_recognition"
                             /\ q.faceConfidence = NoConfidence
                     THEN q.pc = "done" /\ Outcome(q.res) = "MissingProof"
                     ELSE IF q.method = "face_recognition"
                             /\ q.faceConfidence < FaceThreshold
                     THEN q.pc = "done" /\ Outcome(q.res) = "LowConfidence"
                     ELSE q.pc = "save" ]_vars

\* C32: a step of an attendance request that does not end it as Accepted
\* (a check passed, or the answer of a refusal) changes no attendance
\* record, no session and no user
C32_RejectedLeavesStore ==
    [][ \A r \in Reqs :
          ( /\ req'[r] # req[r]
            /\ req'[r].op = "scan"
            /\ \/ req'[r].pc \in {"findExisting", "save"}
               \/ req'[r].pc = "done" /\ Outcome(req'[r].res) # "Accepted" )
          => /\ attendances' = attendances
             /\ sessions' = sessions
             /\ users' = users ]_vars

\* a request has been refused as a duplicate and the record it found is
\* still the only one of its student and session
C32_Witness ==
    \E r \in Reqs :
        /\ ScanDone(r)
        /\ Outcome(req[r].res) = "DuplicateAdmission"
        /\ RecordsOf(attendances, req[r].student, req[r].session) = {req[r].attendance}
        /\ IsSession(sessions[req[r].session])
        /\ sessions[req[r].session].attendanceCount = 1

\* C33: while no attendance request and no removal is in progress, the
\* attendanceCount of every session is the number of attendance records
\* that reference it
C33_CountIsRecordsWhenIdle ==
    (\A r \in Reqs : req[r].op \notin {"scan", "remove"} \/ req[r].pc = "done")
      => \A sid \in SessionIds :
           IsSession(sessions[sid])
             => sessions[sid].attendanceCount
                  = Cardinality(RecordsOfSession(attendances, sid))

\* C34: two requests of two students for one session that both passed the
\* checks are both Accepted, each has its record, and the session counts
\* both
C34_ParallelAdmissions ==
    \A r1, r2 \in Reqs :
        ( /\ r1 # r2
          /\ ScanDone(r1) /\ ScanDone(r2)
          /\ BuiltDocument(r1) /\ BuiltDocument(r2)
          /\ req[r1].student # req[r2].student
          /\ req[r1].session = req[r2].session
          /\ IsSession(sessions[req[r1].session]) )
        => /\ Outcome(req[r1].res) = "Accepted"
           /\ Outcome(req[r2].res) = "Accepted"
           /\ RecordsOf(attendances, req[r1].student, req[r1].session) # {}
           /\ RecordsOf(attendances, req[r2].student, req[r2].session) # {}
           /\ sessions[req[r1].session].attendanceCount
                = Cardinality(RecordsOfSession(attendances, req[r1].session))

\* the markedAt of the record lies between the scheduled start and the
\* expiresAt of the session s
MarkedWithin(a, s) ==
    ScheduledStart(s) <= a.markedAt /\ a.markedAt <= s.expiresAt

C36_ReferentialIntegrity ==
    \A a \in attendances : IsSession(sessions[a.session])

\* the removal g has deleted a record of the student and session of r
RemovedRecordOf(g, r) ==
    /\ req[g].op = "remove"
    /\ \/ req[g].pc = "dec"
       \/ req[g].pc = "done" /\ req[g].res = "AttendanceDeleted"
    /\ \E a \in SeedAttendances :
         /\ a.id = req[g].attendance
         /\ a.student = req[r].student
         /\ a.session = req[r].session

\* C37: once the record of a student and session has been removed, the
\* duplicate check of a request of that student for the session does not
\* refuse it, and the request, which found the session admissible, ends as
\* Accepted
C37_ReadmittedAfterRemove ==
    [][ \A r, g \in Reqs :
          /\ ( /\ ExistingStep(r)
                /\ RemovedRecordOf(g, r)
                /\ RecordsOf(attendances, req[r].student, req[r].session) = {} )
               => Outcome(req'[r].res) # "DuplicateAdmission"
          /\ ( /\ req[r].pc = "save"
                /\ req'[r].pc = "done"
                /\ RemovedRecordOf(g, r)
                /\ RecordsOf(attendances, req[r].student, req[r].session) = {} )
               => Outcome(req'[r].res) = "Accepted" ]_vars

====
